---- MODULE Spec2Model ----
(***************************************************************************)
(* Posture engine of PoseDetector (src/script.js): the neck-angle          *)
(* computation, the quality thresholds and the dwell timer / alert logic,  *)
(* driven by pose results, the auto-hide timeout and camera stop.          *)
(*                                                                         *)
(* Units.  Keypoint coordinates are points of an integer grid (the         *)
(* normalised coordinate times the grid size; atan2 does not depend on the *)
(* scale).  Visibility is in hundredths (0.6 is 60).  Angles are in half   *)
(* degrees, rounded down: currentNeckAngle = 336 stands for a value in     *)
(* [168.0, 168.5).  Every threshold of the program is a whole number of    *)
(* degrees, so comparisons against them are exact, and Math.round of the   *)
(* value is determined.  Timestamps and durations are in milliseconds.     *)
(* An optional value (null, undefined, NaN) is the empty sequence <<>>,    *)
(* a present value v is <<v>>.                                             *)
(***************************************************************************)
EXTENDS Integers, Sequences, FiniteSets, TLC

\* ------------------------------------------------------------------ bounds
\* largest timestamp Date.now() delivers in the model
MaxTime == 11000

\* timestamps read by handlePosturePersistence: whole seconds and a second
\* cadence of 2500 ms, so that durations are not all multiples of 1000
Times == {t \in 0..MaxTime : t % 1000 = 0 \/ t % 2500 = 0}

\* ------------------------------------------------------- program constants
postureThresholds == [perfect |-> 180, good |-> 168, warning |-> 160]

warningDurationThreshold == 10000

\* obj.name of JavaScript: undefined (<<>>) when the object has no such field
Field(obj, name) == IF name \in DOMAIN obj THEN <<obj[name]>> ELSE <<>>

\* degrees to the half-degree unit of currentNeckAngle
HalfDeg(d) == 2 * d

\* angle <= threshold, where the threshold (whole degrees) may be undefined:
\* a comparison with undefined is false
AngleLessEq(angle, threshold) == threshold # <<>> /\ angle <= HalfDeg(threshold[1])

\* ------------------------------------------------------------- arithmetic
Abs(v) == IF v < 0 THEN -v ELSE v

Min(a, b) == IF a <= b THEN a ELSE b

Max(a, b) == IF a >= b THEN a ELSE b

\* Math.floor(n / d) for d > 0
MathFloorDiv(n, d) == n \div d

\* Math.ceil(n / d) for d > 0
MathCeilDiv(n, d) == -((-n) \div d)

\* Math.round of an angle given in half degrees (rounded down): whole degrees
MathRound(h) == (h + 1) \div 2

\* tan(i / 2 degrees) * 10^4 for i = 1..179 (products stay within 32 bits)
TanHalfDeg ==
   <<
      87, 175, 262, 349, 437, 524, 612, 699, 787, 875,
      963, 1051, 1139, 1228, 1317, 1405, 1495, 1584, 1673, 1763,
      1853, 1944, 2035, 2126, 2217, 2309, 2401, 2493, 2586, 2679,
      2773, 2867, 2962, 3057, 3153, 3249, 3346, 3443, 3541, 3640,
      3739, 3839, 3939, 4040, 4142, 4245, 4348, 4452, 4557, 4663,
      4770, 4877, 4986, 5095, 5206, 5317, 5430, 5543, 5658, 5774,
      5890, 6009, 6128, 6249, 6371, 6494, 6619, 6745, 6873, 7002,
      7133, 7265, 7400, 7536, 7673, 7813, 7954, 8098, 8243, 8391,
      8541, 8693, 8847, 9004, 9163, 9325, 9490, 9657, 9827, 10000,
      10176, 10355, 10538, 10724, 10913, 11106, 11303, 11504, 11708, 11918,
      12131, 12349, 12572, 12799, 13032, 13270, 13514, 13764, 14019, 14281,
      14550, 14826, 15108, 15399, 15697, 16003, 16319, 16643, 16977, 17321,
      17675, 18040, 18418, 18807, 19210, 19626, 20057, 20503, 20965, 21445,
      21943, 22460, 22998, 23559, 24142, 24751, 25386, 26051, 26746, 27475,
      28239, 29042, 29887, 30777, 31716, 32709, 33759, 34874, 36059, 37321,
      38667, 40108, 41653, 43315, 45107, 47046, 49152, 51446, 53955, 56713,
      59758, 63138, 66912, 71154, 75958, 81443, 87769, 95144, 103854, 114301,
      127062, 143007, 163499, 190811, 229038, 286363, 381885, 572900, 1145887
   >>

TanScale == 100 * 100

\* bisection in the (increasing) table: the smallest i in lo..hi with
\* a / b <= tan(i / 2 degrees), hi if there is none below it
RECURSIVE LeastAbove(_, _, _, _)
LeastAbove(a, b, lo, hi) ==
   IF lo >= hi THEN hi
   ELSE LET mid == (lo + hi) \div 2
        IN  IF a * TanScale <= TanHalfDeg[mid] * b
            THEN LeastAbove(a, b, lo, mid)
            ELSE LeastAbove(a, b, mid + 1, hi)

\* smallest i (half degrees) with atan(a / b) <= i / 2 degrees, for a, b > 0
AtanUp(a, b) == LeastAbove(a, b, 1, 180)

\* largest i (half degrees) with i / 2 degrees <= atan(a / b), for a, b > 0
AtanDown(a, b) ==
   LET up == AtanUp(a, b)
   IN  IF up < 180 /\ a * TanScale = TanHalfDeg[up] * b THEN up ELSE up - 1

\* atan2 that ignores the sign of b when a = 0
Atan2Deg_NoQuadrant(a, b) ==
   IF a = 0 THEN 0
   ELSE IF b = 0 THEN 180
   ELSE IF b > 0 THEN AtanUp(a, b)
   ELSE 360 - AtanDown(a, -b)

\* Math.atan2(a, b) * (180 / Math.PI) for a >= 0, in half degrees rounded up
\* (so that 180 minus it is rounded down)
Atan2Deg(a, b) ==
   IF a = 0 THEN (IF b >= 0 THEN 0 ELSE 360)
   ELSE IF b = 0 THEN 180
   ELSE IF b > 0 THEN AtanUp(a, b)
   ELSE 360 - AtanDown(a, -b)

\* ------------------------------------------------------------ pose results
\* landmark indices read by analyzePosePosture
LeftEar == 7

RightEar == 8

LeftShoulder == 11

RightShoulder == 12

Required == {LeftEar, RightEar, LeftShoulder, RightShoulder}

\* a landmark with a visibility of v hundredths
Landmark(px, py, v) == [x |-> px, y |-> py, visibility |-> v]

\* a landmark list holding the four landmarks the analysis reads, all clearly
\* visible; each argument is a point <<x, y>>
Pose(le, re, ls, rs) ==
   [i \in Required |->
      CASE i = LeftEar       -> Landmark(le[1], le[2], 99)
        [] i = RightEar      -> Landmark(re[1], re[2], 98)
        [] i = LeftShoulder  -> Landmark(ls[1], ls[2], 97)
        [] i = RightShoulder -> Landmark(rs[1], rs[2], 96)]

\* a pose over level shoulders at (4, 12) and (8, 12)
Seated(le, re) == Pose(le, re, <<4, 12>>, <<8, 12>>)

\* upright: 180 degrees
UprightPose == Seated(<<5, 6>>, <<7, 6>>)

\* leaning: 160.0 degrees
LeaningPose == Seated(<<7, 6>>, <<9, 7>>)

\* slouching: 150.0 degrees
SlouchPose == Seated(<<7, 8>>, <<9, 9>>)

\* poses of the frame stream
Poses == {UprightPose, LeaningPose, SlouchPose}

\* landmarks[k] is undefined
WithoutLandmark(lm, k) == [i \in DOMAIN lm \ {k} |-> lm[i]]

\* landmarks[k] carries no visibility field
WithoutVisibility(lm, k) == [lm EXCEPT ![k] = [x |-> lm[k].x, y |-> lm[k].y]]

\* landmarks[k] has visibility v
WithVisibility(lm, k, v) == [lm EXCEPT ![k] = Landmark(lm[k].x, lm[k].y, v)]

\* visibility values in [0, 0.6] tried on each required landmark
LowVisibilities == {0, 30, 60}

\* non-empty landmark lists handed to analyzePosePosture by the frame stream:
\* the poses, and the slouch with one landmark missing, of low visibility,
\* without a visibility, or just above the visibility limit
Frames ==
   Poses
   \cup {WithoutLandmark(SlouchPose, k) : k \in Required}
   \cup {WithVisibility(SlouchPose, k, v) : k \in Required, v \in LowVisibilities}
   \cup {WithoutVisibility(SlouchPose, RightShoulder), WithVisibility(SlouchPose, RightEar, 61)}

\* poses around the thresholds and at the ends of the angle range
BoundaryPoses ==
   { Seated(<<5, 12>>, <<7, 12>>),    \* ears level with the shoulders, same x
     Seated(<<5, 13>>, <<7, 13>>),    \* ears below the shoulders, same x
     Seated(<<6, 6>>, <<8, 6>>),      \* 170.5
     Seated(<<8, 0>>, <<9, 0>>),      \* 168.0
     Seated(<<8, 0>>, <<9, 1>>),      \* 167.5
     Seated(<<9, 2>>, <<10, 3>>),     \* 159.5
     Seated(<<3, 8>>, <<5, 9>>) }     \* 150.0, head to the other side

\* ear coordinates of the grid poses range over 0..GridMax
GridMax == 5

GridPoints == (0..GridMax) \X (0..GridMax)

\* every placement of the two ears on the grid, over level and over tilted
\* shoulders
GridPoses ==
   {Pose(le, re, <<1, 4>>, rs) : le \in GridPoints, re \in GridPoints,
                                 rs \in {<<3, 4>>, <<4, 5>>}}

\* single frames whose angle and classification are examined
AngleInputs == {<<lm>> : lm \in Poses \cup BoundaryPoses \cup GridPoses}

\* the frame lacks a required keypoint or has one of visibility <= 0.6
Deficient(lm) ==
   \E k \in Required :
      \/ k \notin DOMAIN lm
      \/ "visibility" \in DOMAIN lm[k] /\ lm[k].visibility <= 60

\* ------------------------------------------------------------ the detector
\* landmark.visibility || 1 : undefined and 0 are falsy and give 1
VisibilityOr1(landmark) ==
   IF "visibility" \in DOMAIN landmark /\ landmark.visibility # 0
   THEN landmark.visibility ELSE 100

\* requiredLandmarks.every(landmark => landmark && (landmark.visibility || 1) > 0.6)
hasGoodVisibility(landmarks) ==
   \A k \in Required : k \in DOMAIN landmarks /\ VisibilityOr1(landmarks[k]) > 60

\* the neck angle taken from the left ear alone instead of the averaged ears
NeckAngle_LeftEarOnly(landmarks) ==
   LET avgEarX2      == 2 * landmarks[LeftEar].x
       avgEarY2      == 2 * landmarks[LeftEar].y
       avgShoulderX2 == landmarks[LeftShoulder].x + landmarks[RightShoulder].x
       avgShoulderY2 == landmarks[LeftShoulder].y + landmarks[RightShoulder].y
       deltaX        == avgEarX2 - avgShoulderX2
       deltaY        == avgShoulderY2 - avgEarY2
       angle         == Atan2Deg(Abs(deltaX), deltaY)
   IN  HalfDeg(180) - Abs(angle)

\* 180 - |atan2(|deltaX|, deltaY)| in degrees, from the averaged ear and
\* shoulder; the averages are kept doubled (sums), which atan2 ignores
NeckAngle(landmarks) ==
   LET avgEarX2      == landmarks[LeftEar].x + landmarks[RightEar].x
       avgEarY2      == landmarks[LeftEar].y + landmarks[RightEar].y
       avgShoulderX2 == landmarks[LeftShoulder].x + landmarks[RightShoulder].x
       avgShoulderY2 == landmarks[LeftShoulder].y + landmarks[RightShoulder].y
       deltaX        == avgEarX2 - avgShoulderX2
       deltaY        == avgShoulderY2 - avgEarY2
       angle         == Atan2Deg(Abs(deltaX), deltaY)
   IN  HalfDeg(180) - Abs(angle)

\* number of auto-hide callbacks the browser still holds
PendingTimeouts(s) == (IF s.alertTimeout = "pending" THEN 1 ELSE 0) + s.strayTimeouts

\* clearTimeout(this.alertTimeout): a pending timer is cancelled, the field
\* keeps its (now stale) id
ClearTimeout(s) ==
   [s EXCEPT !.alertTimeout = IF @ = "pending" THEN "stale" ELSE @]

\* this.alertTimeout = v : a timer still pending under the old id keeps
\* running with nothing referring to it
AssignAlertTimeout(s, v) ==
   [s EXCEPT !.alertTimeout = v,
             !.strayTimeouts = @ + (IF s.alertTimeout = "pending" THEN 1 ELSE 0)]

\* hidePostureAlert that forgets the timer without cancelling it
hidePostureAlert_NoClear(s) ==
   IF s.alertShown
   THEN LET s1 == [s EXCEPT !.postureAlertDisplay = "none", !.alertShown = FALSE]
        IN  IF s1.alertTimeout # "null"
            THEN AssignAlertTimeout(s1, "null")
            ELSE s1
   ELSE s

\* hidePostureAlert that leaves the timer alone
hidePostureAlert_KeepTimeout(s) ==
   IF s.alertShown
   THEN [s EXCEPT !.postureAlertDisplay = "none", !.alertShown = FALSE]
   ELSE s

hidePostureAlert(s) ==
   IF s.alertShown
   THEN LET s1 == [s EXCEPT !.postureAlertDisplay = "none", !.alertShown = FALSE]
        IN  IF s1.alertTimeout # "null"
            THEN AssignAlertTimeout(ClearTimeout(s1), "null")
            ELSE s1
   ELSE s

\* showPostureAlert without the alertShown test: raises on every call
showPostureAlert_Unguarded(s) ==
   LET s1 == [s EXCEPT !.postureAlertDisplay = "block", !.alertShown = TRUE,
                       !.audioPlays = @ + 1]
       s2 == IF s1.alertTimeout # "null" THEN ClearTimeout(s1) ELSE s1
   IN  AssignAlertTimeout(s2, "pending")

\* showPostureAlert that forgets to set alertShown
showPostureAlert_NoFlag(s) ==
   IF ~s.alertShown
   THEN LET s1 == [s EXCEPT !.postureAlertDisplay = "block", !.audioPlays = @ + 1]
            s2 == IF s1.alertTimeout # "null" THEN ClearTimeout(s1) ELSE s1
        IN  AssignAlertTimeout(s2, "pending")
   ELSE s

showPostureAlert(s) ==
   IF ~s.alertShown
   THEN LET s1 == [s EXCEPT !.postureAlertDisplay = "block", !.alertShown = TRUE,
                            !.audioPlays = @ + 1]
            s2 == IF s1.alertTimeout # "null" THEN ClearTimeout(s1) ELSE s1
        IN  AssignAlertTimeout(s2, "pending")
   ELSE s

\* resetPoorPostureTimer that leaves the alert alone
resetPoorPostureTimer_NoHide(s) ==
   [s EXCEPT !.poorPostureStartTime = <<>>,
             !.poorPostureDuration = 0,
             !.postureTimerDisplay = "none"]

\* resetPoorPostureTimer that keeps the start time
resetPoorPostureTimer_KeepStart(s) ==
   hidePostureAlert([s EXCEPT !.poorPostureDuration = 0,
                              !.postureTimerDisplay = "none"])

\* resetPoorPostureTimer that keeps the duration
resetPoorPostureTimer_KeepDuration(s) ==
   hidePostureAlert([s EXCEPT !.poorPostureStartTime = <<>>,
                              !.postureTimerDisplay = "none"])

resetPoorPostureTimer(s) ==
   hidePostureAlert([s EXCEPT !.poorPostureStartTime = <<>>,
                              !.poorPostureDuration = 0,
                              !.postureTimerDisplay = "none"])

\* updatePostureTimer that rounds the seconds up
updatePostureTimer_Ceil(s) ==
   IF s.poorPostureStartTime = <<>> THEN s
   ELSE [s EXCEPT !.postureTimerDisplay = "block",
                  !.timerValue = MathCeilDiv(s.poorPostureDuration, 1000),
                  !.timerFill = Min(s.poorPostureDuration, warningDurationThreshold)]

\* timerFill is the progress as a numerator over warningDurationThreshold:
\* Math.min(duration / threshold, 1) = Min(duration, threshold) / threshold
updatePostureTimer(s) ==
   IF s.poorPostureStartTime = <<>> THEN s
   ELSE [s EXCEPT !.postureTimerDisplay = "block",
                  !.timerValue = MathFloorDiv(s.poorPostureDuration, 1000),
                  !.timerFill = Min(s.poorPostureDuration, warningDurationThreshold)]

\* angle is <<half degrees>> or <<>> for the non-numeric '?', whose
\* Math.round is NaN
updatePostureStatus(s, quality, angle, title, subtitle) ==
   [s EXCEPT !.neckAngleText = IF angle = <<>> THEN <<>> ELSE <<MathRound(angle[1])>>,
             !.statusTitle = title,
             !.statusSubtitle = subtitle,
             !.postureDisplayClass = quality]

\* a subtitle: the rounded angle, the fixed text, the seconds of the countdown
Subtitle(angle, text, seconds) == [angle |-> angle, text |-> text, seconds |-> seconds]

\* the quality branches with strict comparisons
postureQuality_Strict(angle) ==
   IF angle > HalfDeg(postureThresholds.good) THEN "good"
   ELSE IF angle > HalfDeg(postureThresholds.warning) THEN "fair"
   ELSE "poor"

\* the branch handlePosturePersistence takes for currentNeckAngle
postureQuality(angle) ==
   IF angle >= HalfDeg(postureThresholds.good) THEN "good"
   ELSE IF angle >= HalfDeg(postureThresholds.warning) THEN "fair"
   ELSE "poor"

\* the duration measured from the previous poor frame instead of the first
trackPoorPosture_FromLast(s, currentTime) ==
   IF s.poorPostureStartTime = <<>>
   THEN [s EXCEPT !.poorPostureStartTime = <<currentTime>>,
                  !.poorPostureDuration = 0]
   ELSE [s EXCEPT !.poorPostureDuration = currentTime - s.poorPostureStartTime[1],
                  !.poorPostureStartTime = <<currentTime>>]

\* the duration counted modulo the threshold
trackPoorPosture_Wrapping(s, currentTime) ==
   IF s.poorPostureStartTime = <<>>
   THEN [s EXCEPT !.poorPostureStartTime = <<currentTime>>,
                  !.poorPostureDuration = 0]
   ELSE [s EXCEPT !.poorPostureDuration =
                     (currentTime - s.poorPostureStartTime[1]) % warningDurationThreshold]

\* poor branch, first part: start or update the dwell time
trackPoorPosture(s, currentTime) ==
   IF s.poorPostureStartTime = <<>>
   THEN [s EXCEPT !.poorPostureStartTime = <<currentTime>>,
                  !.poorPostureDuration = 0]
   ELSE [s EXCEPT !.poorPostureDuration = currentTime - s.poorPostureStartTime[1]]

\* the alert raised only once the duration exceeds the threshold
warnOrAlert_Strict(s) ==
   LET remainingTime == Max(0, warningDurationThreshold - s.poorPostureDuration)
       secondsRemaining == MathCeilDiv(remainingTime, 1000)
       shown == <<MathRound(s.currentNeckAngle)>>
   IN  IF s.poorPostureDuration > warningDurationThreshold
       THEN [state |-> showPostureAlert(s), title |-> "Poor Posture Alert!",
             subtitle |-> Subtitle(shown, "Straighten up now!", <<>>)]
       ELSE [state |-> hidePostureAlert(s), title |-> "Poor Posture Detected",
             subtitle |-> Subtitle(shown, "Warning in", <<secondsRemaining>>)]

\* the alert raised one second before the threshold
warnOrAlert_Early(s) ==
   LET remainingTime == Max(0, warningDurationThreshold - s.poorPostureDuration)
       secondsRemaining == MathCeilDiv(remainingTime, 1000)
       shown == <<MathRound(s.currentNeckAngle)>>
   IN  IF s.poorPostureDuration >= warningDurationThreshold - 1000
       THEN [state |-> showPostureAlert(s), title |-> "Poor Posture Alert!",
             subtitle |-> Subtitle(shown, "Straighten up now!", <<>>)]
       ELSE [state |-> hidePostureAlert(s), title |-> "Poor Posture Detected",
             subtitle |-> Subtitle(shown, "Warning in", <<secondsRemaining>>)]

\* poor branch, second part: the countdown or the alert, with the title and
\* subtitle it chooses
warnOrAlert(s) ==
   LET remainingTime == Max(0, warningDurationThreshold - s.poorPostureDuration)
       secondsRemaining == MathCeilDiv(remainingTime, 1000)
       shown == <<MathRound(s.currentNeckAngle)>>
   IN  IF s.poorPostureDuration >= warningDurationThreshold
       THEN [state |-> showPostureAlert(s), title |-> "Poor Posture Alert!",
             subtitle |-> Subtitle(shown, "Straighten up now!", <<>>)]
       ELSE [state |-> hidePostureAlert(s), title |-> "Poor Posture Detected",
             subtitle |-> Subtitle(shown, "Warning in", <<secondsRemaining>>)]

\* handlePosturePersistence whose fair branch does not reset the dwell state
handlePosturePersistence_FairKeeps(s, currentTime) ==
   LET postureQualityNow == postureQuality(s.currentNeckAngle)
       shown == <<MathRound(s.currentNeckAngle)>>
   IN  IF postureQualityNow = "good"
       THEN updatePostureStatus(resetPoorPostureTimer(s), "good", <<s.currentNeckAngle>>,
               "Excellent Posture!", Subtitle(shown, "Keep it up!", <<>>))
       ELSE IF postureQualityNow = "fair"
       THEN updatePostureStatus(s, "fair", <<s.currentNeckAngle>>,
               "Fair Posture", Subtitle(shown, "Could be better", <<>>))
       ELSE LET r == warnOrAlert(trackPoorPosture(s, currentTime))
            IN  updatePostureStatus(updatePostureTimer(r.state), "poor",
                   <<s.currentNeckAngle>>, r.title, r.subtitle)

handlePosturePersistence(s, currentTime) ==
   LET postureQualityNow == postureQuality(s.currentNeckAngle)
       shown == <<MathRound(s.currentNeckAngle)>>
   IN  IF postureQualityNow = "good"
       THEN updatePostureStatus(resetPoorPostureTimer(s), "good", <<s.currentNeckAngle>>,
               "Excellent Posture!", Subtitle(shown, "Keep it up!", <<>>))
       ELSE IF postureQualityNow = "fair"
       THEN updatePostureStatus(resetPoorPostureTimer(s), "fair", <<s.currentNeckAngle>>,
               "Fair Posture", Subtitle(shown, "Could be better", <<>>))
       ELSE LET r == warnOrAlert(trackPoorPosture(s, currentTime))
            IN  updatePostureStatus(updatePostureTimer(r.state), "poor",
                   <<s.currentNeckAngle>>, r.title, r.subtitle)

\* analyzePosePosture that publishes the stale angle when the gate fails
analyzePosePosture_StaleAngle(s, landmarks, currentTime) ==
   IF ~hasGoodVisibility(landmarks)
   THEN resetPoorPostureTimer(
           updatePostureStatus(s, "unknown", <<s.currentNeckAngle>>,
              "Keypoints not visible",
              Subtitle(<<>>, "Position yourself within the frame", <<>>)))
   ELSE handlePosturePersistence(
           [s EXCEPT !.currentNeckAngle = NeckAngle(landmarks)], currentTime)

\* currentTime is what Date.now() returns if handlePosturePersistence runs
analyzePosePosture(s, landmarks, currentTime) ==
   IF ~hasGoodVisibility(landmarks)
   THEN resetPoorPostureTimer(
           updatePostureStatus(s, "unknown", <<>>, "Keypoints not visible",
              Subtitle(<<>>, "Position yourself within the frame", <<>>)))
   ELSE handlePosturePersistence(
           [s EXCEPT !.currentNeckAngle = NeckAngle(landmarks)], currentTime)

\* results.poseLandmarks is <<>> when missing or empty, else <<landmarks>>
onResults(s, poseLandmarks, currentTime) ==
   IF poseLandmarks # <<>>
   THEN analyzePosePosture(s, poseLandmarks[1], currentTime)
   ELSE s

\* the auto-hide callback comparing with the warning threshold
alertTimeoutCallback_Warning(s) ==
   IF AngleLessEq(s.currentNeckAngle, Field(postureThresholds, "warning"))
   THEN hidePostureAlert(s)
   ELSE s

\* the auto-hide callback scheduled by showPostureAlert
alertTimeoutCallback(s) ==
   IF AngleLessEq(s.currentNeckAngle, Field(postureThresholds, "fair"))
   THEN hidePostureAlert(s)
   ELSE s

\* stopCamera without the final resetPoorPostureTimer
stopCamera_NoReset(s) == [s EXCEPT !.stream = FALSE]

stopCamera(s) == resetPoorPostureTimer([s EXCEPT !.stream = FALSE])

\* ------------------------------------------------------------------- state
VARIABLES
   this,             \* the PoseDetector: its fields and the page elements it sets
   resultInFlight,   \* a pose.send started before the stop has not yet answered
   lastEvent,        \* last event that reached the posture logic
   frameTime,        \* timestamp read by the last analysed frame, if it read one
   streakT0,         \* timestamp of the first frame of the current run of poor frames
   streakFirst,      \* the last frame was the first one of its run
   streakMono,       \* the timestamps of the current run never decreased
   streakAlerted,    \* some frame of the current run had a duration >= threshold
   firstReach,       \* the last frame was the first such frame of its run
   prevAlertShown,   \* alertShown before the last event
   frameDeficient,   \* the last analysed frame lacked a keypoint or had one <= 0.6
   scenario,         \* frames of the 0, 1000, .. 11000 scenario matched so far
   input             \* the one frame of a single-frame run (<<>> in a frame stream)

vars == <<this, resultInFlight, lastEvent, frameTime, streakT0, streakFirst,
          streakMono, streakAlerted, firstReach, prevAlertShown, frameDeficient,
          scenario, input>>

\* the fields after the constructor, the page as loaded
constructed ==
   [stream |-> FALSE,
    currentNeckAngle |-> HalfDeg(180),
    poorPostureStartTime |-> <<>>,
    poorPostureDuration |-> 0,
    alertShown |-> FALSE,
    alertTimeout |-> "null",
    strayTimeouts |-> 0,
    audioPlays |-> 0,
    postureTimerDisplay |-> "none",
    timerValue |-> 0,
    timerFill |-> 0,
    postureAlertDisplay |-> "none",
    postureDisplayClass |-> "",
    neckAngleText |-> <<>>,
    statusTitle |-> "",
    statusSubtitle |-> Subtitle(<<>>, "", <<>>)]

Constructed ==
   /\ this = constructed
   /\ resultInFlight = FALSE
   /\ lastEvent = "init"
   /\ frameTime = <<>>
   /\ streakT0 = <<>>
   /\ streakFirst = FALSE
   /\ streakMono = TRUE
   /\ streakAlerted = FALSE
   /\ firstReach = FALSE
   /\ prevAlertShown = FALSE
   /\ frameDeficient = FALSE
   /\ scenario = <<0>>

Init == Constructed /\ input = <<>>

\* the run of poor frames ends: observers back to their idle values
StreakEnds ==
   /\ streakT0' = <<>>
   /\ streakFirst' = FALSE
   /\ streakMono' = TRUE
   /\ streakAlerted' = FALSE
   /\ firstReach' = FALSE

\* a frame classified poor at currentTime extends or starts the run
StreakGoes(currentTime) ==
   LET first == streakT0 = <<>>
       reached == this'.poorPostureDuration >= warningDurationThreshold
   IN  /\ streakT0' = IF first THEN <<currentTime>> ELSE streakT0
       /\ streakFirst' = first
       /\ streakMono' = (first \/ (streakMono /\ currentTime >= frameTime[1]))
       /\ streakAlerted' = ((~first /\ streakAlerted) \/ reached)
       /\ firstReach' = (reached /\ (first \/ ~streakAlerted))

\* startCamera: the stream is acquired and the detection loop starts
StartCamera ==
   /\ ~this.stream
   /\ this' = [this EXCEPT !.stream = TRUE]
   /\ resultInFlight' = FALSE
   /\ UNCHANGED <<lastEvent, frameTime, streakT0, streakFirst, streakMono,
                  streakAlerted, firstReach, prevAlertShown, frameDeficient, scenario,
                  input>>

\* what the pose source may deliver: no landmarks (<<>>) or a landmark list
Results == {<<>>} \cup {<<lm>> : lm \in Frames}

\* onResults(results) where Date.now() would return currentTime
Deliver(poseLandmarks, currentTime) ==
   LET analysed == poseLandmarks # <<>>
       quality == this'.postureDisplayClass
   IN  /\ this' = onResults([this EXCEPT !.audioPlays = 0], poseLandmarks, currentTime)
       /\ lastEvent' = IF analysed THEN "frame" ELSE "noPose"
       /\ prevAlertShown' = this.alertShown
       /\ frameDeficient' = (analysed /\ Deficient(poseLandmarks[1]))
       /\ IF ~analysed
          THEN UNCHANGED <<frameTime, streakT0, streakFirst, streakMono,
                           streakAlerted, firstReach>>
          ELSE IF quality = "poor"
          THEN frameTime' = <<currentTime>> /\ StreakGoes(currentTime)
          ELSE /\ frameTime' = IF quality = "unknown" THEN <<>> ELSE <<currentTime>>
               /\ StreakEnds
       /\ scenario' =
             IF /\ scenario # <<>>
                /\ analysed
                /\ quality = "poor"
                /\ this'.currentNeckAngle = HalfDeg(150)
                /\ scenario[1] < 12
                /\ currentTime = 1000 * scenario[1]
             THEN <<scenario[1] + 1>>
             ELSE <<>>

\* the pose source answers a send: onResults with or without landmarks; the
\* clock is read only if the call gets to handlePosturePersistence
OnResults ==
   /\ this.stream \/ resultInFlight
   /\ \E poseLandmarks \in Results :
         IF poseLandmarks = <<>> \/ ~hasGoodVisibility(poseLandmarks[1])
         THEN Deliver(poseLandmarks, 0)
         ELSE \E currentTime \in Times : Deliver(poseLandmarks, currentTime)
   /\ resultInFlight' = FALSE
   /\ UNCHANGED input

\* the browser runs a pending auto-hide callback
AlertTimeoutFires ==
   /\ PendingTimeouts(this) > 0
   /\ LET fired == IF this.alertTimeout = "pending"
                   THEN [this EXCEPT !.alertTimeout = "stale", !.audioPlays = 0]
                   ELSE [this EXCEPT !.strayTimeouts = @ - 1, !.audioPlays = 0]
      IN  this' = alertTimeoutCallback(fired)
   /\ lastEvent' = "timeout"
   /\ prevAlertShown' = this.alertShown
   /\ scenario' = <<>>
   /\ UNCHANGED <<resultInFlight, frameTime, streakT0, streakFirst, streakMono,
                  streakAlerted, firstReach, frameDeficient, input>>

\* stopCamera (stop button or switchCamera); a send may still be in flight
StopCamera ==
   /\ this' = stopCamera([this EXCEPT !.audioPlays = 0])
   /\ resultInFlight' \in (IF this.stream THEN BOOLEAN ELSE {resultInFlight})
   /\ lastEvent' = "stop"
   /\ prevAlertShown' = this.alertShown
   /\ frameTime' = <<>>
   /\ StreakEnds
   /\ scenario' = <<>>
   /\ UNCHANGED <<frameDeficient, input>>

Next == StartCamera \/ OnResults \/ AlertTimeoutFires \/ StopCamera

Spec == Init /\ [][Next]_vars

\* ---------------------------------------------------- single-frame analysis
\* a freshly constructed detector and one frame to analyse
InitAngle == Constructed /\ input \in AngleInputs

\* the first result after the camera start carries the input frame
AnalyzeInput ==
   /\ this.stream
   /\ lastEvent = "init"
   /\ \E currentTime \in Times : Deliver(input, currentTime)
   /\ UNCHANGED <<resultInFlight, input>>

NextAngle == StartCamera \/ AnalyzeInput

SpecAngle == InitAngle /\ [][NextAngle]_vars

\* ------------------------------------------------------------- vocabulary
AfterFrame == lastEvent = "frame"

Quality == this.postureDisplayClass

AfterPoorFrame == AfterFrame /\ Quality = "poor"

TimerHidden == this.postureTimerDisplay = "none"

AlertHidden == ~this.alertShown /\ this.postureAlertDisplay = "none"

DwellReset ==
   /\ this.poorPostureStartTime = <<>>
   /\ this.poorPostureDuration = 0
   /\ TimerHidden
   /\ AlertHidden

\* what the last frame did about the alert, as the claim about runs has it
RaisedOnceAtThreshold ==
   /\ this.audioPlays = (IF firstReach THEN 1 ELSE 0)
   /\ firstReach => /\ ~prevAlertShown
                    /\ this.alertShown
                    /\ this.postureAlertDisplay = "block"
                    /\ this.alertTimeout = "pending"
   /\ streakAlerted => this.statusTitle = "Poor Posture Alert!"
   /\ ~streakAlerted => this.statusTitle = "Poor Posture Detected"

\* ------------------------------------------------------------------ claims
\* C1 (as claimed): a frame in which a required keypoint is absent or has a
\* visibility <= 0.6, 0 included, is classified unknown and resets the dwell
\* state.
C1_DeficientFrameUnknown ==
   (AfterFrame /\ frameDeficient) => (Quality = "unknown" /\ DwellReset)

\* C2 (as claimed): in every run of consecutive poor frames the alert is raised
\* exactly once, at the first frame whose duration is >= 10000, that frame and
\* all later ones of the run are titled "Poor Posture Alert!", and a run
\* that never reaches 10000 raises none.
C2_OneRaisePerRun == AfterPoorFrame => RaisedOnceAtThreshold

\* C2 (amended): the same, for runs whose timestamps never decrease.
C2_OneRaisePerMonotoneRun == (AfterPoorFrame /\ streakMono) => RaisedOnceAtThreshold

C2_Witness ==
   /\ AfterPoorFrame /\ streakMono
   /\ streakAlerted /\ ~firstReach
   /\ this.alertShown /\ this.audioPlays = 0

\* C3: in a run of poor frames that began at t0, after the frame at ti the
\* duration is ti - t0 (0 on the first frame) and the timer progress is
\* min(duration / 10000, 1).
C3_DwellAccumulates ==
   AfterPoorFrame =>
      /\ this.poorPostureDuration = frameTime[1] - streakT0[1]
      /\ streakFirst => this.poorPostureDuration = 0
      /\ this.poorPostureDuration <= 10000 => this.timerFill = this.poorPostureDuration
      /\ this.poorPostureDuration >= 10000 => this.timerFill = warningDurationThreshold

C3_Witness ==
   /\ AfterPoorFrame /\ ~streakFirst
   /\ streakT0 = <<1000>> /\ frameTime = <<7500>>
   /\ this.poorPostureDuration = 6500

\* C4: a good or fair frame, in any state, leaves duration 0, no start time,
\* the timer hidden, no alert and no auto-hide timeout pending.
C4_Recovery ==
   (AfterFrame /\ Quality \in {"good", "fair"}) =>
      (DwellReset /\ PendingTimeouts(this) = 0)

C4_Witness == AfterFrame /\ Quality = "fair" /\ prevAlertShown /\ DwellReset

\* C5 (as claimed): a result without landmarks is classified unknown and takes
\* the reset path, so neither a dwell time nor an alert survives it.
C5_NoPoseResets == lastEvent = "noPose" => (Quality = "unknown" /\ DwellReset)

\* C6: for a frame that passes the visibility gate, the quality is good iff
\* angle >= 168, fair iff 160 <= angle < 168, poor iff angle < 160.
C6_Thresholds ==
   (AfterFrame /\ Quality # "unknown") =>
      /\ Quality \in {"good", "fair", "poor"}
      /\ Quality = "good" <=> this.currentNeckAngle >= HalfDeg(168)
      /\ Quality = "fair" <=> /\ this.currentNeckAngle >= HalfDeg(160)
                              /\ this.currentNeckAngle < HalfDeg(168)
      /\ Quality = "poor" <=> this.currentNeckAngle < HalfDeg(160)

C6_Witness ==
   AfterFrame /\ Quality = "fair" /\ this.currentNeckAngle = HalfDeg(160)

\* C7: from the initial state, poor frames (150 degrees) at 0, 1000, .. 11000:
\* the first ten are titled "Poor Posture Detected" and count 10, 9, .. 1
\* seconds, the one at 10000 is titled "Poor Posture Alert!" and raises one
\* alert, the one at 11000 has the same title and raises none.
C7_Scenario ==
   (scenario # <<>> /\ scenario[1] >= 1) =>
      LET k == scenario[1]
      IN  /\ k <= 10 => /\ this.statusTitle = "Poor Posture Detected"
                        /\ this.statusSubtitle.seconds = <<11 - k>>
                        /\ this.audioPlays = 0
          /\ k = 11 => this.statusTitle = "Poor Posture Alert!" /\ this.audioPlays = 1
          /\ k = 12 => this.statusTitle = "Poor Posture Alert!" /\ this.audioPlays = 0

C7_Witness == scenario = <<12>> /\ this.alertShown

\* C8: the first poor frame after a reset (good, fair, unknown frame or camera
\* stop) has duration 0 and its own timestamp as start time, and durations of
\* a streak are measured from that frame, never from an earlier streak.
C8_FreshStreak ==
   AfterPoorFrame =>
      /\ this.poorPostureStartTime = streakT0
      /\ streakFirst => /\ this.poorPostureDuration = 0
                        /\ this.poorPostureStartTime = frameTime

C8_Witness ==
   /\ AfterPoorFrame /\ streakT0 = <<6000>> /\ frameTime = <<11000>>
   /\ this.poorPostureDuration = 5000 /\ ~this.alertShown

\* C9: on every poor frame the timer is visible with floor(duration / 1000)
\* seconds and progress min(duration / 10000, 1); while the timestamps of the
\* streak never decrease the progress is in [0, 1] and the duration >= 0.
C9_TimerDisplay ==
   AfterPoorFrame =>
      /\ this.postureTimerDisplay = "block"
      /\ this.timerValue * 1000 <= this.poorPostureDuration
      /\ this.poorPostureDuration < (this.timerValue + 1) * 1000
      /\ this.timerFill = Min(this.poorPostureDuration, 10000)
      /\ streakMono => /\ this.poorPostureDuration >= 0
                       /\ this.timerFill >= 0
                       /\ this.timerFill <= warningDurationThreshold

C9_Witness ==
   AfterPoorFrame /\ streakMono /\ this.poorPostureDuration = 2500 /\ this.timerValue = 2

\* C10 (as claimed): a frame that fails the visibility gate keeps
\* currentNeckAngle and publishes that last known angle in its status.
C10_UnknownReportsLastAngle ==
   [][(lastEvent' = "frame" /\ this'.postureDisplayClass = "unknown") =>
         /\ this'.currentNeckAngle = this.currentNeckAngle
         /\ this'.neckAngleText = <<MathRound(this.currentNeckAngle)>>]_vars

\* C10 (amended): a frame that fails the visibility gate keeps
\* currentNeckAngle, and the angle it publishes is not a number (the status
\* is given '?', shown as NaN), not the last known angle.
C10_UnknownKeepsAngleShowsNaN ==
   [][(lastEvent' = "frame" /\ this'.postureDisplayClass = "unknown") =>
         /\ this'.currentNeckAngle = this.currentNeckAngle
         /\ this'.neckAngleText = <<>>]_vars

C10_Witness ==
   /\ AfterFrame /\ Quality = "unknown"
   /\ this.currentNeckAngle = HalfDeg(150)
   /\ this.neckAngleText = <<>>

\* doubled horizontal offset of the averaged ears from the averaged shoulders
\* in the input frame
InputDeltaX ==
   (input[1][LeftEar].x + input[1][RightEar].x)
      - (input[1][LeftShoulder].x + input[1][RightShoulder].x)

\* doubled height of the averaged ears above the averaged shoulders in the
\* input frame (y grows downwards)
InputDeltaY ==
   (input[1][LeftShoulder].y + input[1][RightShoulder].y)
      - (input[1][LeftEar].y + input[1][RightEar].y)

AfterInputFrame == AfterFrame /\ input # <<>>

\* C11 (as claimed): a frame whose averaged ear x equals the averaged shoulder
\* x has currentNeckAngle exactly 180 and is good, for every vertical offset,
\* ears above, level with or below the shoulders.
C11_VerticalIs180 ==
   (AfterInputFrame /\ InputDeltaX = 0) =>
      (this.currentNeckAngle = HalfDeg(180) /\ Quality = "good")

\* C11 (amended): with equal averaged x, ears above or level with the
\* shoulders give exactly 180 and good; ears below the shoulders give exactly
\* 0 and poor.
C11_VerticalAboveIs180BelowIs0 ==
   (AfterInputFrame /\ InputDeltaX = 0) =>
      /\ InputDeltaY >= 0 => (this.currentNeckAngle = HalfDeg(180) /\ Quality = "good")
      /\ InputDeltaY < 0 => (this.currentNeckAngle = 0 /\ Quality = "poor")

C11_Witness ==
   /\ AfterInputFrame /\ InputDeltaX = 0 /\ InputDeltaY < 0
   /\ this.currentNeckAngle = 0

SwapEars(lm) == [lm EXCEPT ![LeftEar] = lm[RightEar], ![RightEar] = lm[LeftEar]]

SwapShoulders(lm) ==
   [lm EXCEPT ![LeftShoulder] = lm[RightShoulder], ![RightShoulder] = lm[LeftShoulder]]

\* the input frame with its ears, its shoulders, or both pairs swapped
SwappedInputs ==
   {SwapEars(input[1]), SwapShoulders(input[1]), SwapEars(SwapShoulders(input[1]))}

\* C12: the frame with left and right ears and/or shoulders swapped gives the
\* same currentNeckAngle, classification and posture state as the frame
\* itself.
C12_SwapSymmetry ==
   AfterInputFrame =>
      \A swapped \in SwappedInputs :
         onResults([constructed EXCEPT !.stream = TRUE], <<swapped>>,
                   IF frameTime = <<>> THEN 0 ELSE frameTime[1]) = this

C12_Witness ==
   /\ AfterInputFrame /\ Quality = "poor"
   /\ input[1][LeftEar].x # input[1][RightEar].x
   /\ input[1][LeftEar].y # input[1][RightEar].y
   /\ input[1][LeftShoulder].y # input[1][RightShoulder].y

\* C13: in every reachable state at most one auto-hide timeout is pending and
\* none runs without alertTimeout referring to it; a firing leaves none
\* pending, so no callback fires twice for one alert.
C13_AtMostOnePending ==
   /\ [](PendingTimeouts(this) <= 1 /\ this.strayTimeouts = 0)
   /\ [][lastEvent' = "timeout" => PendingTimeouts(this') = 0]_vars

C13_Witness ==
   /\ AfterPoorFrame /\ this.audioPlays = 1 /\ ~streakMono
   /\ this.alertTimeout = "pending"

\* C14: after stopCamera no auto-hide timeout is pending and the dwell state
\* is reset: start time unset, duration 0, timer hidden, alert hidden.
C14_StopCancelsAndResets ==
   lastEvent = "stop" =>
      /\ PendingTimeouts(this) = 0
      /\ this.alertTimeout # "pending"
      /\ DwellReset

C14_Witness ==
   /\ lastEvent = "stop" /\ prevAlertShown
   /\ this.alertTimeout = "null"

\* the engine state but for the bookkeeping of the timers and of the sound
SameButTimers(s, t) ==
   [s EXCEPT !.alertTimeout = t.alertTimeout,
             !.strayTimeouts = t.strayTimeouts,
             !.audioPlays = t.audioPlays] = t

\* C15: the firing of the auto-hide callback leaves alertShown and all other
\* posture state unchanged; alertShown is cleared only by a camera stop, by a
\* good, fair or unknown frame, or by a poor frame whose duration is below the
\* threshold.
C15_TimeoutNeverHides ==
   [][/\ lastEvent' = "timeout" => SameButTimers(this, this')
      /\ (this.alertShown /\ ~this'.alertShown) =>
            \/ lastEvent' = "stop"
            \/ /\ lastEvent' = "frame"
               /\ \/ this'.postureDisplayClass \in {"good", "fair", "unknown"}
                  \/ /\ this'.postureDisplayClass = "poor"
                     /\ this'.poorPostureDuration < warningDurationThreshold]_vars

C15_Witness ==
   /\ lastEvent = "timeout" /\ this.alertShown
   /\ this.postureAlertDisplay = "block"
   /\ this.alertTimeout = "stale"
   /\ AngleLessEq(this.currentNeckAngle, Field(postureThresholds, "warning"))

\* C16: after every analysed frame poorPostureStartTime is set if and only if
\* the frame was classified poor; a poor frame sets it to its own timestamp
\* when it was unset and keeps it unchanged when it was set.
C16_StartSetIffPoor ==
   /\ [](AfterFrame => (this.poorPostureStartTime # <<>> <=> Quality = "poor"))
   /\ [][(lastEvent' = "frame" /\ this'.postureDisplayClass = "poor") =>
            this'.poorPostureStartTime =
               IF this.poorPostureStartTime = <<>> THEN frameTime'
               ELSE this.poorPostureStartTime]_vars

C16_Witness ==
   /\ AfterPoorFrame /\ ~streakFirst
   /\ this.poorPostureStartTime = <<1000>>
   /\ frameTime = <<2500>>

\* C17: in every reachable state poorPostureStartTime unset implies
\* poorPostureDuration = 0.
C17_UnsetStartZeroDuration ==
   this.poorPostureStartTime = <<>> => this.poorPostureDuration = 0

C17_Witness ==
   /\ this.poorPostureStartTime = <<>> /\ this.poorPostureDuration = 0
   /\ AfterFrame /\ Quality = "unknown" /\ prevAlertShown

\* C18: on a poor frame that continues a poor streak with nondecreasing
\* timestamps poorPostureDuration does not decrease and an active alert stays
\* active; an active alert is cleared only by a camera stop, by a frame that
\* is not poor, or by a poor frame of a streak whose timestamps stepped back.
C18_MonotoneStreak ==
   [][/\ (/\ lastEvent' = "frame" /\ this'.postureDisplayClass = "poor"
          /\ ~streakFirst' /\ streakMono') =>
            /\ this'.poorPostureDuration >= this.poorPostureDuration
            /\ this.alertShown => this'.alertShown
      /\ (this.alertShown /\ ~this'.alertShown) =>
            \/ lastEvent' = "stop"
            \/ /\ lastEvent' = "frame"
               /\ this'.postureDisplayClass # "poor" \/ ~streakMono']_vars

C18_Witness ==
   /\ AfterPoorFrame /\ streakMono /\ ~streakFirst
   /\ prevAlertShown /\ this.alertShown
   /\ this.poorPostureDuration > warningDurationThreshold

\* hidePostureAlert as the source states it for a shown alert
HiddenAlert(s) ==
   [s EXCEPT !.postureAlertDisplay = "none", !.alertShown = FALSE,
             !.alertTimeout = "null"]

\* C19: in every reachable state, hidePostureAlert invoked with the alert
\* shown clears alertShown, hides the alert and leaves no timeout pending,
\* changing nothing else; invoked with the alert not shown, a second
\* consecutive invocation included, it changes nothing.
C19_HideIdempotent ==
   LET hidden == hidePostureAlert(this)
   IN  /\ this.alertShown =>
             /\ hidden = HiddenAlert(this)
             /\ PendingTimeouts(hidden) = 0
       /\ ~this.alertShown => hidden = this
       /\ hidePostureAlert(hidden) = hidden

C19_Witness ==
   /\ AfterPoorFrame /\ prevAlertShown /\ ~this.alertShown
   /\ this.alertTimeout = "null"
   /\ hidePostureAlert(this) = this

\* C20: in every reachable state alertShown is true if and only if
\* poorPostureDuration >= warningDurationThreshold, and alertShown implies
\* that poorPostureStartTime is set.
C20_AlertIffThreshold ==
   /\ this.alertShown <=> this.poorPostureDuration >= warningDurationThreshold
   /\ this.alertShown => this.poorPostureStartTime # <<>>

C20_Witness ==
   /\ lastEvent = "timeout" /\ this.alertShown
   /\ this.poorPostureDuration = warningDurationThreshold
   /\ this.poorPostureStartTime # <<>>

\* C21: in every reachable state a pending auto-hide timeout implies that
\* alertShown is true, and every firing of the callback starts and ends with
\* the alert shown.
C21_PendingImpliesShown ==
   /\ [](PendingTimeouts(this) > 0 => this.alertShown)
   /\ [][(lastEvent' = "timeout" /\ PendingTimeouts(this') < PendingTimeouts(this)) =>
            (this.alertShown /\ this'.alertShown)]_vars

C21_Witness ==
   /\ lastEvent = "noPose" /\ prevAlertShown
   /\ PendingTimeouts(this) = 1
   /\ this.alertShown

====
